---- MODULE Spec2Model ----
(***************************************************************************)
(* Model of the streaming analysis engine of field_profiler:               *)
(*   StreamingStats, ReservoirSampler and FieldProfilerTask                *)
(*   (src/field_profiler_task.py).                                         *)
(*                                                                         *)
(* One FieldProfilerTask is modelled from construction to finished().      *)
(* run() is cut at the points where the code polls isCanceled(): one step  *)
(* for the set-up block, one step per feature of the iterator, one step    *)
(* per finalized field and one step for the closing blocks.  cancel() is   *)
(* an action of the main thread that can fire between any two steps.       *)
(*                                                                         *)
(* StreamingStats, ReservoirSampler, the scaling of a sample count and     *)
(* _analyze_text are also exercised on their own (SpecStats, SpecSampler,  *)
(* SpecScale, SpecText), and the Analyze button of the dock widget with    *)
(* the tasks it creates is modelled in SpecWidget                          *)
(* (src/field_profiler_dockwidget.py).                                     *)
(*                                                                         *)
(* The three size constants of the code are scaled down so that the cases  *)
(* beyond them are reachable: MAX_EXACT_VALUES (1000000 in the code),      *)
(* MAX_ERROR_FIDS (the literal 1000 of the two id lists) and               *)
(* PROGRESS_EVERY (the literal 1000 of the progress cadence).              *)
(***************************************************************************)
EXTENDS Integers, Sequences, FiniteSets, TLC

\* ------------------------------------------------------------------ bounds
\* Largest number of features the iterator delivers in one run.
MaxRows == 5

\* Largest capacity of the sampler exercised on its own, and the largest
\* number of update() calls made on it.
MaxCapacity == 3
MaxUpdates == 5

\* Largest non-null count for which the scaling of a sample count is exercised.
MaxTotal == 6

\* Largest sample of a text field analysed on its own.
MaxSample == 5

\* Largest number of tasks the dock widget creates.
MaxTasks == 3

\* ------------------------------------------------- program constants (scaled)
MAX_EXACT_VALUES == 2
MAX_ERROR_FIDS == 2
PROGRESS_EVERY == 2

\* ------------------------------------------------------------------ values
\* The null value of a feature attribute (None, or a QVariant with isNull()).
NULL == "<NULL>"

\* The layer's schema: field name -> declared type.  A requested name that is
\* not in the schema does not resolve (lookupField returns -1).
SchemaNames == {"n1", "n2", "n3", "t1", "d1"}

FieldType(fname) ==
    CASE fname \in {"n1", "n2", "n3"} -> "Double"
      [] fname = "t1" -> "String"
      [] fname = "d1" -> "Date"

isNumeric(fname) == FieldType(fname) = "Double"

isTemporal(fname) == FieldType(fname) \in {"Date", "DateTime"}

lookupField(fname) == IF fname \in SchemaNames THEN 0 ELSE -1

\* Attribute values the layer holds in each column.  "x" is a non-null value
\* of a numeric field on which float() raises ValueError; "a\\1" is a string
\* with a non-printable character; "D1", "D2" are valid QDate values.
ValuesOf(fname) ==
    CASE fname = "n1" -> {NULL, "1", "2", "x"}
      [] fname = "n2" -> {NULL, "2"}
      [] fname = "n3" -> {"1", "x"}
      [] fname = "t1" -> {NULL, "", "abc", "a\\1"}
      [] fname = "d1" -> {NULL, "D1", "D2"}

isNull(val) == val = NULL

\* float(val): the values float() parses, and what it parses them to.
FloatTable == [v \in {"1", "2"} |-> IF v = "1" THEN 1 ELSE 2]

FloatOk(val) == val \in DOMAIN FloatTable

float(val) == FloatTable[val]

_has_non_printable_chars(text_value) == text_value = "a\\1"

\* ------------------------------------------------------------ dictionaries
EmptyDict == [k \in {} |-> 0]

Put(d, k, v) == [x \in (DOMAIN d) \cup {k} |-> IF x = k THEN v ELSE d[x]]

Update(d, e) == [x \in (DOMAIN d) \cup (DOMAIN e) |-> IF x \in DOMAIN e THEN e[x] ELSE d[x]]

Range(seq) == {seq[i] : i \in 1 .. Len(seq)}

\* ------------------------------------------------------------ real numbers
\* Reals are pairs <<n, d>> with d >= 0 in lowest terms; <<1, 0>> is +inf and
\* <<-1, 0>> is -inf.
RECURSIVE Gcd(_, _)
Gcd(a, b) == IF b = 0 THEN a ELSE Gcd(b, a % b)

Abs(a) == IF a < 0 THEN -a ELSE a

Rat(n, d) ==
    LET g == Gcd(Abs(n), Abs(d))
        s == IF d < 0 THEN -1 ELSE 1
    IN  IF g = 0 THEN <<0, 1>> ELSE <<s * (n \div g), s * (d \div g)>>

RInt(n) == <<n, 1>>
PosInf == <<1, 0>>
NegInf == <<-1, 0>>
RAdd(a, b) == Rat(a[1] * b[2] + b[1] * a[2], a[2] * b[2])
RSub(a, b) == Rat(a[1] * b[2] - b[1] * a[2], a[2] * b[2])
RMul(a, b) == Rat(a[1] * b[1], a[2] * b[2])
RDivInt(a, n) == Rat(a[1], a[2] * n)
RLess(a, b) == a[1] * b[2] < b[1] * a[2]

\* ---------------------------------------------------------- StreamingStats
StreamingStats_init ==
    [count |-> 0, min_val |-> PosInf, max_val |-> NegInf, mean |-> RInt(0), M2 |-> RInt(0)]

\* Welford update that multiplies the deviation from the old mean by itself.
StreamingStats_update_olddelta(ss, val) ==
    LET count == ss.count + 1
        delta == RSub(val, ss.mean)
        mean == RAdd(ss.mean, RDivInt(delta, count))
    IN  [count |-> count,
         min_val |-> IF RLess(val, ss.min_val) THEN val ELSE ss.min_val,
         max_val |-> IF RLess(ss.max_val, val) THEN val ELSE ss.max_val,
         mean |-> mean,
         M2 |-> RAdd(ss.M2, RMul(delta, delta))]

\* Lines 31-39.
StreamingStats_update(ss, val) ==
    LET count == ss.count + 1
        delta == RSub(val, ss.mean)
        mean == RAdd(ss.mean, RDivInt(delta, count))
        delta2 == RSub(val, mean)
    IN  [count |-> count,
         min_val |-> IF RLess(val, ss.min_val) THEN val ELSE ss.min_val,
         max_val |-> IF RLess(ss.max_val, val) THEN val ELSE ss.max_val,
         mean |-> mean,
         M2 |-> RAdd(ss.M2, RMul(delta, delta2))]

\* float('nan'), and a number, as the value of variance().
NaN == [nan |-> TRUE, value |-> RInt(0)]
Number(v) == [nan |-> FALSE, value |-> v]

\* Lines 41-43.
variance(ss) == IF ss.count < 2 THEN NaN ELSE Number(RDivInt(ss.M2, ss.count))

\* Lines 45-47.  The square root is not taken: value is the number whose
\* square root std_dev() returns.
std_dev(ss) == IF ss.count < 2 THEN NaN ELSE Number(RDivInt(ss.M2, ss.count))

\* -------------------------------------------------------- ReservoirSampler
ReservoirSampler_init(size) == [size |-> size, reservoir |-> <<>>, count_seen |-> 0]

\* The values random.randint(0, count_seen - 1) can return in update(), where
\* count_seen is the incremented counter; {0} when update() draws nothing.
Draws(rs) == IF Len(rs.reservoir) < rs.size THEN {0} ELSE 0 .. rs.count_seen

\* update() that draws from the slots only and therefore always replaces.
ReservoirSampler_update_always(rs, item, r) ==
    LET count_seen == rs.count_seen + 1
    IN  IF Len(rs.reservoir) < rs.size
        THEN [rs EXCEPT !.count_seen = count_seen, !.reservoir = Append(@, item)]
        ELSE [rs EXCEPT !.count_seen = count_seen, !.reservoir[(r % rs.size) + 1] = item]

\* update() whose fill test is off by one (<= instead of <).
ReservoirSampler_update_le(rs, item, r) ==
    LET count_seen == rs.count_seen + 1
    IN  IF Len(rs.reservoir) <= rs.size
        THEN [rs EXCEPT !.count_seen = count_seen, !.reservoir = Append(@, item)]
        ELSE IF r < rs.size
             THEN [rs EXCEPT !.count_seen = count_seen, !.reservoir[r + 1] = item]
             ELSE [rs EXCEPT !.count_seen = count_seen]

\* update(item), r being the value drawn by random.randint (slot r of the
\* Python list is element r + 1 of the sequence).
ReservoirSampler_update(rs, item, r) ==
    LET count_seen == rs.count_seen + 1
    IN  IF Len(rs.reservoir) < rs.size
        THEN [rs EXCEPT !.count_seen = count_seen, !.reservoir = Append(@, item)]
        ELSE IF r < rs.size
             THEN [rs EXCEPT !.count_seen = count_seen, !.reservoir[r + 1] = item]
             ELSE [rs EXCEPT !.count_seen = count_seen]

\* ------------------------------------------------------ the field collector
\* None stands for an absent StreamingStats / ReservoirSampler.
None == [none |-> TRUE]

NewCollector(fname) ==
    [null_count |-> 0,
     streaming_stats |-> IF isNumeric(fname) THEN StreamingStats_init ELSE None,
     reservoir |-> ReservoirSampler_init(MAX_EXACT_VALUES),
     conversion_errors |-> 0,
     conversion_error_fids |-> <<>>,
     non_printable_fids |-> <<>>,
     is_exact |-> TRUE,
     original_variants_reservoir |->
         IF isTemporal(fname) THEN ReservoirSampler_init(MAX_EXACT_VALUES) ELSE None]

\* The original value of a temporal field goes to the secondary reservoir
\* only while the field is exact.
CollectOriginal_exactonly(col, fname, val, r2) ==
    IF isTemporal(fname) /\ ~isNull(val) /\ col.is_exact
    THEN [col EXCEPT !.original_variants_reservoir = ReservoirSampler_update(@, val, r2)]
    ELSE col

\* The original value of a temporal field goes to the secondary reservoir
\* whether it is null or not.
CollectOriginal_always(col, fname, val, r2) ==
    IF isTemporal(fname)
    THEN [col EXCEPT !.original_variants_reservoir = ReservoirSampler_update(@, val, r2)]
    ELSE col

\* Lines 178-182: the original value of a temporal field goes to the secondary
\* reservoir when it is not null.
CollectOriginal(col, fname, val, r2) ==
    IF isTemporal(fname) /\ ~isNull(val)
    THEN [col EXCEPT !.original_variants_reservoir = ReservoirSampler_update(@, val, r2)]
    ELSE col

\* Numeric conversion that appends the identifier without the cap.
CollectNumeric_nocap(col, val, fid) ==
    IF FloatOk(val)
    THEN [col EXCEPT !.streaming_stats = StreamingStats_update(@, RInt(float(val)))]
    ELSE [col EXCEPT !.conversion_errors = @ + 1,
                     !.conversion_error_fids = Append(@, fid)]

\* Numeric conversion that counts the errors only while it stores identifiers.
CollectNumeric_lencount(col, val, fid) ==
    IF FloatOk(val)
    THEN [col EXCEPT !.streaming_stats = StreamingStats_update(@, RInt(float(val)))]
    ELSE IF Len(col.conversion_error_fids) < MAX_ERROR_FIDS
         THEN [col EXCEPT !.conversion_errors = @ + 1,
                          !.conversion_error_fids = Append(@, fid)]
         ELSE col

\* Numeric conversion that updates the running statistics only while the
\* field is exact.
CollectNumeric_exactonly(col, val, fid) ==
    IF FloatOk(val)
    THEN IF col.is_exact
         THEN [col EXCEPT !.streaming_stats = StreamingStats_update(@, RInt(float(val)))]
         ELSE col
    ELSE [col EXCEPT !.conversion_errors = @ + 1,
                     !.conversion_error_fids =
                         IF Len(@) < MAX_ERROR_FIDS THEN Append(@, fid) ELSE @]

\* Lines 196-203: numeric conversion of a non-null value.
CollectNumeric(col, val, fid) ==
    IF FloatOk(val)
    THEN [col EXCEPT !.streaming_stats = StreamingStats_update(@, RInt(float(val)))]
    ELSE [col EXCEPT !.conversion_errors = @ + 1,
                     !.conversion_error_fids =
                         IF Len(@) < MAX_ERROR_FIDS THEN Append(@, fid) ELSE @]

\* Lines 206-209: non-printable check of a non-null string value.
CollectString(col, val, fid) ==
    IF _has_non_printable_chars(val) /\ Len(col.non_printable_fids) < MAX_ERROR_FIDS
    THEN [col EXCEPT !.non_printable_fids = Append(@, fid)]
    ELSE col

\* The exactness switch with >= instead of >.
ExactAfter_ge(is_exact, count_seen) ==
    IF is_exact /\ count_seen >= MAX_EXACT_VALUES THEN FALSE ELSE is_exact

\* Lines 192-193: the exactness switch.
ExactAfter(is_exact, count_seen) ==
    IF is_exact /\ count_seen > MAX_EXACT_VALUES THEN FALSE ELSE is_exact

\* Value processing that feeds the reservoir of a numeric field only with the
\* values that convert.
CollectValue_convertfirst(col, fname, val, fid, r) ==
    IF isNull(val)
    THEN [col EXCEPT !.null_count = @ + 1]
    ELSE LET c1 == IF isNumeric(fname) /\ ~FloatOk(val) THEN col
                   ELSE [col EXCEPT !.reservoir = ReservoirSampler_update(@, val, r)]
             c2 == [c1 EXCEPT !.is_exact = ExactAfter(@, c1.reservoir.count_seen)]
         IN  IF isNumeric(fname) THEN CollectNumeric(c2, val, fid)
             ELSE IF FieldType(fname) = "String" THEN CollectString(c2, val, fid)
             ELSE c2

\* Value processing that feeds the reservoir before the null test.
CollectValue_feedfirst(col, fname, val, fid, r) ==
    LET c1 == [col EXCEPT !.reservoir = ReservoirSampler_update(@, val, r)]
        c2 == [c1 EXCEPT !.is_exact = ExactAfter(@, c1.reservoir.count_seen)]
    IN  IF isNull(val)
        THEN [c2 EXCEPT !.null_count = @ + 1]
        ELSE IF isNumeric(fname) THEN CollectNumeric(c2, val, fid)
             ELSE IF FieldType(fname) = "String" THEN CollectString(c2, val, fid)
             ELSE c2

\* Lines 184-209: null counting and value processing.
CollectValue(col, fname, val, fid, r) ==
    IF isNull(val)
    THEN [col EXCEPT !.null_count = @ + 1]
    ELSE LET c1 == [col EXCEPT !.reservoir = ReservoirSampler_update(@, val, r)]
             c2 == [c1 EXCEPT !.is_exact = ExactAfter(@, c1.reservoir.count_seen)]
         IN  IF isNumeric(fname) THEN CollectNumeric(c2, val, fid)
             ELSE IF FieldType(fname) = "String" THEN CollectString(c2, val, fid)
             ELSE c2

\* Lines 174-209 for one field of one feature; r and r2 are the draws of the
\* primary and of the secondary reservoir.
CollectorUpdate(col, fname, val, fid, r, r2) ==
    CollectValue(CollectOriginal(col, fname, val, r2), fname, val, fid, r)

\* Every collector the body of the per-field loop can leave for this value.
CollectorOutcomes(col, fname, val, fid) ==
    { CollectorUpdate(col, fname, val, fid, r, r2) :
        r \in (IF isNull(val) THEN {0} ELSE Draws(col.reservoir)),
        r2 \in (IF isTemporal(fname) /\ ~isNull(val)
                THEN Draws(col.original_variants_reservoir) ELSE {0}) }

\* ------------------------------------------------------------ finalization
\* The sorted copy of a sequence of integers.
RECURSIVE SortInts(_)
SortInts(seq) ==
    IF seq = <<>> THEN <<>>
    ELSE LET rest == SortInts(Tail(seq))
             below == {i \in 1 .. Len(rest) : rest[i] < Head(seq)}
             k == Cardinality(below)
         IN  SubSeq(rest, 1, k) \o <<Head(seq)>> \o SubSeq(rest, k + 1, Len(rest))

\* numpy.percentile(sample, 25 * q4) with linear interpolation, on the sorted
\* sample: the virtual index is (n - 1) * q4 / 4.
Percentile(sorted, q4) ==
    LET n == Len(sorted)
        pos == (n - 1) * q4
        lo == pos \div 4
        hi == IF lo + 1 < n THEN lo + 1 ELSE lo
    IN  RAdd(RInt(sorted[lo + 1]), RMul(Rat(pos % 4, 4), RInt(sorted[hi + 1] - sorted[lo + 1])))

\* int(sample_count * count / sample_size): the scaled count, truncated.
ScaledCount(sample_count, count, sample_size) == (sample_count * count) \div sample_size

\* A count taken from the sample as the result shows it: the number itself
\* while the field is exact, otherwise the scaled number followed by "(Est.)".
LabelledCount(sample_count, is_exact, count, sample_size) ==
    IF is_exact
    THEN [value |-> sample_count, est |-> FALSE]
    ELSE [value |-> ScaledCount(sample_count, count, sample_size), est |-> TRUE]

\* A count taken from the sample as lines 462 and 560 show it: scaled when the
\* field is not exact, with no "(Est.)" in the text.
UnlabelledCount(sample_count, is_exact, count, sample_size) ==
    IF is_exact
    THEN [value |-> sample_count, est |-> FALSE]
    ELSE [value |-> ScaledCount(sample_count, count, sample_size), est |-> FALSE]

\* _analyze_numeric.  Line 373 converts every sampled value again with
\* float(), which raises when the sample holds a value that failed conversion
\* during collection; the exception leaves the function before it returns.
\* Min, Max, Range, Mean and Sum come from StreamingStats, the quartiles and
\* the outlier count from the sample.
_analyze_numeric(col, count) ==
    IF \E i \in 1 .. Len(col.reservoir.reservoir) : ~FloatOk(col.reservoir.reservoir[i])
    THEN [raised |-> TRUE, stats |-> EmptyDict]
    ELSE LET ss == col.streaming_stats
             data_sample == SortInts([i \in 1 .. Len(col.reservoir.reservoir) |->
                                         float(col.reservoir.reservoir[i])])
             Q1 == Percentile(data_sample, 1)
             Q3 == Percentile(data_sample, 3)
             IQR == RSub(Q3, Q1)
             lower == RSub(Q1, RMul(Rat(3, 2), IQR))
             upper == RAdd(Q3, RMul(Rat(3, 2), IQR))
             outliers == {i \in 1 .. Len(data_sample) :
                            RLess(RInt(data_sample[i]), lower) \/ RLess(upper, RInt(data_sample[i]))}
         IN  [raised |-> FALSE,
              stats |-> [k \in {"Conversion Errors", "Min", "Max", "Range", "Mean", "Sum",
                                "Median", "Q1", "Q3", "IQR", "Outliers (IQR)"} |->
                           CASE k = "Conversion Errors" -> col.conversion_errors
                             [] k = "Min" -> ss.min_val
                             [] k = "Max" -> ss.max_val
                             [] k = "Range" -> RSub(ss.max_val, ss.min_val)
                             [] k = "Mean" -> ss.mean
                             [] k = "Sum" -> RMul(ss.mean, RInt(ss.count))
                             [] k = "Median" -> Percentile(data_sample, 2)
                             [] k = "Q1" -> Q1
                             [] k = "Q3" -> Q3
                             [] k = "IQR" -> IQR
                             [] k = "Outliers (IQR)" ->
                                  LabelledCount(Cardinality(outliers), col.is_exact,
                                                count, Len(data_sample))]]

\* Number of elements of a sequence equal to v.
CountOf(seq, v) == Cardinality({i \in 1 .. Len(seq) : seq[i] = v})

\* The distinct elements of a sequence in first-seen order (the key order of a
\* Counter).
RECURSIVE FirstSeen(_)
FirstSeen(seq) ==
    IF seq = <<>> THEN <<>>
    ELSE LET rest == FirstSeen(SubSeq(seq, 1, Len(seq) - 1))
         IN  IF \E i \in 1 .. Len(rest) : rest[i] = seq[Len(seq)]
             THEN rest
             ELSE Append(rest, seq[Len(seq)])

\* The n most frequent keys with their counts, most frequent first, keys of
\* equal count in the order of keys (a stable descending sort).
RECURSIVE most_common(_, _, _)
most_common(keys, sample, n) ==
    IF n <= 0 \/ keys = <<>> THEN <<>>
    ELSE LET best == CHOOSE i \in 1 .. Len(keys) :
                        /\ \A j \in 1 .. Len(keys) : CountOf(sample, keys[j]) <= CountOf(sample, keys[i])
                        /\ \A j \in 1 .. i - 1 : CountOf(sample, keys[j]) < CountOf(sample, keys[i])
             others == SubSeq(keys, 1, best - 1) \o SubSeq(keys, best + 1, Len(keys))
         IN  <<[value |-> keys[best], count |-> CountOf(sample, keys[best])]>>
                 \o most_common(others, sample, n - 1)

\* config_options.get('limit_unique', 5)
limit_unique == 5

\* len(s) of the strings of the text column.
StrLen(v) == CASE v = "" -> 0 [] v = "abc" -> 3 [] v = "xyz" -> 3 [] v = "a\\1" -> 2

\* _analyze_text: the empty-string count (labelled when scaled), the lengths of
\* the non-empty sampled strings and the most frequent sampled values.
_analyze_text_limit(col, count, limit) ==
    LET sample == col.reservoir.reservoir
        empty_count == CountOf(sample, "")
        non_empty == {i \in 1 .. Len(sample) : sample[i] # ""}
        top == most_common(FirstSeen(sample), sample, limit)
        keys0 == {"Empty Strings", "Unique Values (Top)", "_top_values_raw"}
        keys1 == IF non_empty # {} THEN keys0 \cup {"Min Length", "Max Length"} ELSE keys0
        keys2 == IF top # <<>> THEN keys1 \cup {"Unique Values (Top)_actual_first_value"} ELSE keys1
        shown == [i \in 1 .. Len(top) |->
                    [value |-> top[i].value,
                     count |-> UnlabelledCount(top[i].count, col.is_exact, count, Len(sample))]]
    IN  [raised |-> FALSE,
         stats |-> [k \in keys2 |->
                      CASE k = "Empty Strings" ->
                              LabelledCount(empty_count, col.is_exact, count, Len(sample))
                        [] k = "Min Length" ->
                              CHOOSE m \in {StrLen(sample[i]) : i \in non_empty} :
                                  \A i \in non_empty : m <= StrLen(sample[i])
                        [] k = "Max Length" ->
                              CHOOSE m \in {StrLen(sample[i]) : i \in non_empty} :
                                  \A i \in non_empty : m >= StrLen(sample[i])
                        [] k = "Unique Values (Top)" -> shown
                        [] k = "Unique Values (Top)_actual_first_value" -> top[1].value
                        [] k = "_top_values_raw" -> shown]]

\* _analyze_text with the limit the task was configured with (the default).
_analyze_text(col, count) == _analyze_text_limit(col, count, limit_unique)

\* The order of the date values (and of their str()).
DateOrd(v) == IF v = "D1" THEN 1 ELSE 2

\* The distinct dates of a sample in ascending order.
SortedDates(sample) ==
    LET has(v) == \E i \in 1 .. Len(sample) : sample[i] = v
    IN  (IF has("D1") THEN <<"D1">> ELSE <<>>) \o (IF has("D2") THEN <<"D2">> ELSE <<>>)

\* _analyze_date: works on the secondary reservoir; the most frequent dates
\* are sorted by descending count, then by str().
_analyze_date(col, count) ==
    LET sample == col.original_variants_reservoir.reservoir
        top == most_common(SortedDates(sample), sample, limit_unique)
    IN  IF sample = <<>>
        THEN [raised |-> FALSE, stats |-> [k \in {"Status"} |-> "No data"]]
        ELSE [raised |-> FALSE,
              stats |-> [k \in {"Min Date", "Max Date", "Unique Values (Top)",
                                "Unique Values (Top)_actual_first_value"} |->
                           CASE k = "Min Date" ->
                                   CHOOSE d \in Range(sample) : \A e \in Range(sample) : DateOrd(d) <= DateOrd(e)
                             [] k = "Max Date" ->
                                   CHOOSE d \in Range(sample) : \A e \in Range(sample) : DateOrd(d) >= DateOrd(e)
                             [] k = "Unique Values (Top)" ->
                                   [i \in 1 .. Len(top) |->
                                      [value |-> top[i].value,
                                       count |-> UnlabelledCount(top[i].count, col.is_exact,
                                                                 count, Len(sample))]]
                             [] k = "Unique Values (Top)_actual_first_value" -> top[1].value]]

\* What the run keeps about the rows of a text field that hold a non-printable
\* character: the identifier list of lines 205-209, copied to the result at
\* lines 282-283.  There is no counter.
NonPrintableRecorded(col) == Len(col.non_printable_fids)

\* The result entry with zeroed statistics added for a field without values.
FieldResult_zeroed(col, fname, count) ==
    LET non_null_count == col.reservoir.count_seen
        base0 == [k \in {"Null Count", "Non-Null Count"} |->
                    IF k = "Null Count" THEN col.null_count ELSE non_null_count]
        base1 == IF col.conversion_error_fids # <<>>
                 THEN Put(base0, "_conversion_error_fids", col.conversion_error_fids)
                 ELSE base0
        base2 == IF col.non_printable_fids # <<>>
                 THEN Put(base1, "_non_printable_fids", col.non_printable_fids)
                 ELSE base1
        base3 == IF ~col.is_exact
                 THEN Put(base2, "Status (Method)", "Approximated (Large Dataset)")
                 ELSE base2
        an == IF non_null_count = 0
              THEN [raised |-> FALSE,
                    stats |-> [k \in {"Status", "Conversion Errors"} |->
                                 IF k = "Status" THEN "All Null or Empty" ELSE "0"]]
              ELSE IF isNumeric(fname) THEN _analyze_numeric(col, non_null_count)
              ELSE IF FieldType(fname) = "String" THEN _analyze_text(col, non_null_count)
              ELSE IF isTemporal(fname) THEN _analyze_date(col, non_null_count)
              ELSE [raised |-> FALSE, stats |-> [k \in {"Status"} |-> "Not implemented"]]
    IN  IF an.raised
        THEN Put(base3, "Error", "exception")
        ELSE Put(Update(base3, an.stats), "Data Type Mismatch Hint", "N/A")

\* Lines 265-311: the result entry of one resolved field.
FieldResult(col, fname, count) ==
    LET non_null_count == col.reservoir.count_seen
        base0 == [k \in {"Null Count", "Non-Null Count"} |->
                    IF k = "Null Count" THEN col.null_count ELSE non_null_count]
        base1 == IF col.conversion_error_fids # <<>>
                 THEN Put(base0, "_conversion_error_fids", col.conversion_error_fids)
                 ELSE base0
        base2 == IF col.non_printable_fids # <<>>
                 THEN Put(base1, "_non_printable_fids", col.non_printable_fids)
                 ELSE base1
        base3 == IF ~col.is_exact
                 THEN Put(base2, "Status (Method)", "Approximated (Large Dataset)")
                 ELSE base2
        an == IF non_null_count = 0
              THEN [raised |-> FALSE, stats |-> [k \in {"Status"} |-> "All Null or Empty"]]
              ELSE IF isNumeric(fname) THEN _analyze_numeric(col, non_null_count)
              ELSE IF FieldType(fname) = "String" THEN _analyze_text(col, non_null_count)
              ELSE IF isTemporal(fname) THEN _analyze_date(col, non_null_count)
              ELSE [raised |-> FALSE, stats |-> [k \in {"Status"} |-> "Not implemented"]]
    IN  IF an.raised
        THEN Put(base3, "Error", "exception")
        ELSE Put(Update(base3, an.stats), "Data Type Mismatch Hint", "N/A")

\* ------------------------------------------------------------------ inputs
\* The run requests the model covers: the requested field list (one field of
\* each domain, two numeric fields for the correlation, lists with a name "zz"
\* that is not in the schema), the validation rules ("bad(" is a rule with a
\* parser error) and the value of len(selected_ids) / layer.featureCount().
Runs ==
    { [field_names |-> <<"n1">>, rules |-> <<>>, total_count |-> 3],
      [field_names |-> <<"t1">>, rules |-> <<>>, total_count |-> 0],
      [field_names |-> <<"d1">>, rules |-> <<"r1", "bad(">>, total_count |-> 3],
      [field_names |-> <<"n2", "n3">>, rules |-> <<>>, total_count |-> 4],
      [field_names |-> <<"n1", "zz">>, rules |-> <<"bad(">>, total_count |-> 3],
      [field_names |-> <<"zz", "t1">>, rules |-> <<>>, total_count |-> 0] }

hasParserError(rule) == rule = "bad("

\* What exp.evaluate(feature) can do on one row: a true value, a false value
\* (a rule with a parser error evaluates to an invalid, false value), or raise.
EvalOutcomes(rule) == IF hasParserError(rule) THEN {"False"} ELSE {"True", "False", "Error"}

\* ------------------------------------------------------------------- state
VARIABLES
    field_names,            \* self.field_names
    validation_rules_str,   \* self.validation_rules_str
    total_count,            \* total_count of run()
    pc,                     \* position of the task: setup, collecting, finalizing,
                            \* closing (inside run), returned, finished
    canceled,               \* what isCanceled() returns
    results,                \* self.results
    resolved,               \* keys of field_metadata, in insertion order
    collectors,             \* collectors of run()
    validation_fail_counts, \* validation_fail_counts of run()
    row_reservoir,          \* self.row_reservoir (None when absent)
    count,                  \* count of run()
    fin,                    \* position of the finalization loop in resolved
    exception,              \* self.exception ("None" when unset)
    result,                 \* value returned by run(): "none", "True", "False"
    emitted,                \* payloads of analysisFinished, in emission order
    progress,               \* values passed to setProgress, in order
    observed,               \* history: where run() saw isCanceled(): none, row, field
    hist,                   \* history: per schema field, what the iterator delivered
    vhist,                  \* history: per rule, the evaluations made and the ones that
                            \* did not yield a true value; the rows complete for correlation
    sampler,                \* a ReservoirSampler exercised on its own
    n_updates,              \* history: number of update() calls made on sampler
    last,                   \* history: the last update() on sampler: state before,
                            \* item and value drawn
    call,                   \* arguments of a function exercised on its own
    ret,                    \* what that function returned (None before the call)
    stats,                  \* a StreamingStats exercised on its own
    fed,                    \* history: the values passed to stats.update, in order
    current_task,           \* self.current_task of the dock widget (0 for None)
    tasks,                  \* the tasks the dock widget created, in creation order
    displayed               \* history: the task whose results the widget shows (0: none)

samplerVars == <<sampler, n_updates, last>>
callVars == <<call, ret>>
statsVars == <<stats, fed>>
widgetVars == <<current_task, tasks, displayed>>

unit == <<samplerVars, callVars, statsVars, widgetVars>>

vars == <<unit, field_names, validation_rules_str, total_count, pc, canceled, results,
          resolved, collectors, validation_fail_counts, row_reservoir, count, fin,
          exception, result, emitted, progress, observed, hist, vhist>>

inputs == <<field_names, validation_rules_str, total_count>>

taskVars == <<inputs, pc, canceled, results, resolved, collectors, validation_fail_counts,
              row_reservoir, count, fin, exception, result, emitted, progress,
              observed, hist, vhist>>

\* Filter of a sequence by a predicate on its elements.
RECURSIVE SelectNames(_, _)
SelectNames(names, keep) ==
    IF names = <<>> THEN <<>>
    ELSE IF Head(names) \in keep
         THEN <<Head(names)>> \o SelectNames(Tail(names), keep)
         ELSE SelectNames(Tail(names), keep)

\* No update() has been made on the sampler.
NoUpdate == [before |-> None, item |-> "", r |-> 0]

\* The state of a task after FieldProfilerTask.__init__, at position p.
TaskInit(p) ==
    /\ pc = p
    /\ canceled = FALSE
    /\ results = EmptyDict
    /\ resolved = <<>>
    /\ collectors = EmptyDict
    /\ validation_fail_counts = <<>>
    /\ row_reservoir = None
    /\ count = 0
    /\ fin = 1
    /\ exception = "None"
    /\ result = "none"
    /\ emitted = <<>>
    /\ progress = <<>>
    /\ observed = "none"
    /\ hist = [n \in SchemaNames |-> [nulls |-> 0, non_null |-> 0, failed |-> 0, non_printable |-> 0,
                                      lo |-> PosInf, hi |-> NegInf]]
    /\ vhist = [rules |-> [i \in 1 .. Len(validation_rules_str) |-> [evals |-> 0, fails |-> 0, errors |-> 0]],
                corr_rows |-> 0]

\* No task is under study: the task variables of the specifications that
\* exercise one class or one function on its own.
NoTask ==
    /\ field_names = <<>>
    /\ validation_rules_str = <<>>
    /\ total_count = 0
    /\ TaskInit("unit")

\* The variables of the classes and functions exercised on their own, at rest.
NoSampler == sampler = None /\ n_updates = 0 /\ last = NoUpdate
NoCall == call = None /\ ret = None
NoStats == stats = None /\ fed = <<>>
NoWidget == current_task = 0 /\ tasks = <<>> /\ displayed = 0

\* The state after FieldProfilerTask.__init__ for one of the run requests.
Init ==
    /\ \E run \in Runs :
         /\ field_names = run.field_names
         /\ validation_rules_str = run.rules
         /\ total_count = run.total_count
    /\ TaskInit("setup")
    /\ NoSampler
    /\ NoCall
    /\ NoStats
    /\ NoWidget

\* ----------------------------------------------------------------- set-up
\* Lines 105-125: names that resolve, in request order.
ResolvedNames(names) == SelectNames(names, {n \in Range(names) : lookupField(n) # -1})

\* Lines 107-109: the error entries of the names that do not resolve.
NotFoundResults(res, names) ==
    [k \in (DOMAIN res) \cup {n \in Range(names) : lookupField(n) = -1} |->
        IF k \in Range(names) /\ lookupField(k) = -1
        THEN [e \in {"Error"} |-> "Field not found"]
        ELSE res[k]]

\* Lines 135-138: a rule with a parser error leaves a note in the results.
ParserErrorResults(res, rules) ==
    IF \E i \in 1 .. Len(rules) : hasParserError(rules[i])
    THEN Put(res, "_validation_error", "Parser Error in rule")
    ELSE res

\* Line 149: field_metadata[fname] is looked up for every requested name and
\* raises KeyError for a name that did not resolve.
CorrLookupRaises(names) == \E i \in 1 .. Len(names) : lookupField(names[i]) = -1

numeric_fields_for_corr == SelectNames(field_names, {n \in SchemaNames : isNumeric(n)})

\* Set-up that leaves out the rules with a parser error.
Setup_skipbad ==
    /\ pc = "setup"
    /\ resolved' = ResolvedNames(field_names)
    /\ collectors' = [n \in Range(resolved') |-> NewCollector(n)]
    /\ results' = ParserErrorResults(NotFoundResults(results, field_names), validation_rules_str)
    /\ validation_fail_counts' =
           [i \in 1 .. Cardinality({j \in 1 .. Len(validation_rules_str) :
                                      ~hasParserError(validation_rules_str[j])}) |-> 0]
    /\ IF CorrLookupRaises(field_names)
       THEN /\ exception' = "KeyError"
            /\ result' = "False"
            /\ pc' = "returned"
            /\ UNCHANGED row_reservoir
       ELSE /\ row_reservoir' = IF Len(numeric_fields_for_corr) > 1
                                THEN ReservoirSampler_init(MAX_EXACT_VALUES)
                                ELSE None
            /\ pc' = "collecting"
            /\ UNCHANGED <<exception, result>>
    /\ UNCHANGED <<unit, inputs, canceled, count, fin, emitted, progress, observed, hist, vhist>>

\* Lines 97-164 of run(), up to the first pull on the iterator.
Setup ==
    /\ pc = "setup"
    /\ resolved' = ResolvedNames(field_names)
    /\ collectors' = [n \in Range(resolved') |-> NewCollector(n)]
    /\ results' = ParserErrorResults(NotFoundResults(results, field_names), validation_rules_str)
    /\ validation_fail_counts' = [i \in 1 .. Len(validation_rules_str) |-> 0]
    /\ IF CorrLookupRaises(field_names)
       THEN /\ exception' = "KeyError"
            /\ result' = "False"
            /\ pc' = "returned"
            /\ UNCHANGED row_reservoir
       ELSE /\ row_reservoir' = IF Len(numeric_fields_for_corr) > 1
                                THEN ReservoirSampler_init(MAX_EXACT_VALUES)
                                ELSE None
            /\ pc' = "collecting"
            /\ UNCHANGED <<exception, result>>
    /\ UNCHANGED <<unit, inputs, canceled, count, fin, emitted, progress, observed, hist, vhist>>

\* -------------------------------------------------------------- collection
\* The features the iterator can deliver: one value per schema field (fields
\* that were not requested are never read and are left null here).
Features ==
    LET V(n) == IF n \in Range(field_names) THEN ValuesOf(n) ELSE {NULL}
    IN  [n1 : V("n1"), n2 : V("n2"), n3 : V("n3"), t1 : V("t1"), d1 : V("d1")]

\* Lines 174-209 over all resolved fields: every collectors dictionary the
\* loop can leave for this feature.
RECURSIVE CollectAll(_, _, _, _)
CollectAll(cols, names, feature, fid) ==
    IF names = <<>> THEN {cols}
    ELSE UNION { CollectAll([cols EXCEPT ![Head(names)] = c], Tail(names), feature, fid) :
                   c \in CollectorOutcomes(cols[Head(names)], Head(names),
                                           feature[Head(names)], fid) }

\* Rule counting that lets an evaluation error pass.
ValidationUpdate_noerr(fail_counts, ev) ==
    [i \in 1 .. Len(fail_counts) |-> IF ev[i] = "False" THEN fail_counts[i] + 1 ELSE fail_counts[i]]

\* Lines 219-226: rule i fails on a false value and on an evaluation error.
ValidationUpdate(fail_counts, ev) ==
    [i \in 1 .. Len(fail_counts) |-> IF ev[i] = "True" THEN fail_counts[i] ELSE fail_counts[i] + 1]

\* Lines 231-251: the row is valid when every participating value is non-null
\* and converts; row_vals holds the converted values in field order.
valid_row(feature) ==
    \A i \in 1 .. Len(numeric_fields_for_corr) :
        ~isNull(feature[numeric_fields_for_corr[i]]) /\ FloatOk(feature[numeric_fields_for_corr[i]])

row_vals(feature) ==
    [i \in 1 .. Len(numeric_fields_for_corr) |-> float(feature[numeric_fields_for_corr[i]])]

\* Correlation update that keeps an incomplete row as a vector of NaN.
RowReservoirOutcomes_nan(rr, feature) ==
    IF rr = None THEN {rr}
    ELSE { ReservoirSampler_update(rr,
                IF valid_row(feature) THEN row_vals(feature)
                ELSE [i \in 1 .. Len(numeric_fields_for_corr) |-> 0], r) : r \in Draws(rr) }

\* Lines 229-254: every state the correlation reservoir can be left in.
RowReservoirOutcomes(rr, feature) ==
    IF rr = None \/ ~valid_row(feature) THEN {rr}
    ELSE { ReservoirSampler_update(rr, row_vals(feature), r) : r \in Draws(rr) }

\* Line 258: the value handed to setProgress during collection.
ProgressValue(cnt, total) == IF total > 0 THEN Rat(cnt * 100, total) ELSE RInt(0)

\* Lines 256-258.
ProgressAfterRow(prog, cnt, total) ==
    IF cnt % PROGRESS_EVERY = 0 THEN Append(prog, ProgressValue(cnt, total)) ELSE prog

\* History of what the iterator delivered for one field.
HistAfter(h, feature) ==
    [n \in SchemaNames |->
        IF n \notin Range(resolved) THEN h[n]
        ELSE IF isNull(feature[n]) THEN [h[n] EXCEPT !.nulls = @ + 1]
        ELSE [h[n] EXCEPT !.non_null = @ + 1,
                          !.failed = IF isNumeric(n) /\ ~FloatOk(feature[n]) THEN @ + 1 ELSE @,
                          !.lo = IF isNumeric(n) /\ FloatOk(feature[n])
                                    /\ RLess(RInt(float(feature[n])), @)
                                 THEN RInt(float(feature[n])) ELSE @,
                          !.hi = IF isNumeric(n) /\ FloatOk(feature[n])
                                    /\ RLess(@, RInt(float(feature[n])))
                                 THEN RInt(float(feature[n])) ELSE @,
                          !.non_printable = IF FieldType(n) = "String" /\ feature[n] = "a\\1"
                                            THEN @ + 1 ELSE @]]

\* History of the rule evaluations on one feature and of the features in which
\* every requested numeric field carries a number.
VHistAfter(h, feature, ev) ==
    [rules |-> [i \in 1 .. Len(h.rules) |->
                  [evals |-> h.rules[i].evals + 1,
                   fails |-> h.rules[i].fails + (IF ev[i] \in {"False", "Error"} THEN 1 ELSE 0),
                   errors |-> h.rules[i].errors + (IF ev[i] = "Error" THEN 1 ELSE 0)]],
     corr_rows |-> h.corr_rows +
        (IF \A n \in Range(field_names) :
                FieldType(n) = "Double" => feature[n] \in {"1", "2"}
         THEN 1 ELSE 0)]

\* Lines 168-258: one feature is pulled and isCanceled() is false.  The
\* feature identifier is the position of the feature in the stream.
CollectRow ==
    /\ pc = "collecting"
    /\ count < MaxRows
    /\ ~canceled
    /\ \E feature \in Features :
         /\ collectors' \in CollectAll(collectors, resolved, feature, count + 1)
         /\ \E ev \in [1 .. Len(validation_rules_str) ->
                          UNION {EvalOutcomes(validation_rules_str[i]) :
                                   i \in 1 .. Len(validation_rules_str)}] :
              /\ \A i \in 1 .. Len(validation_rules_str) :
                     ev[i] \in EvalOutcomes(validation_rules_str[i])
              /\ validation_fail_counts' = ValidationUpdate(validation_fail_counts, ev)
              /\ vhist' = VHistAfter(vhist, feature, ev)
         /\ row_reservoir' \in RowReservoirOutcomes(row_reservoir, feature)
         /\ hist' = HistAfter(hist, feature)
    /\ count' = count + 1
    /\ progress' = ProgressAfterRow(progress, count', total_count)
    /\ UNCHANGED <<unit, inputs, pc, canceled, results, resolved, fin, exception, result,
                   emitted, observed>>

\* The cancellation check leaving the loop with break instead of return False.
CancelSeenAtRow_break ==
    /\ pc = "collecting"
    /\ count < MaxRows
    /\ canceled
    /\ pc' = "finalizing"
    /\ fin' = 1
    /\ observed' = "row"
    /\ UNCHANGED <<unit, inputs, canceled, results, resolved, collectors, validation_fail_counts,
                   row_reservoir, count, result, exception, emitted, progress, hist, vhist>>

\* Lines 169-170: one feature is pulled and isCanceled() is true.
CancelSeenAtRow ==
    /\ pc = "collecting"
    /\ count < MaxRows
    /\ canceled
    /\ pc' = "returned"
    /\ result' = "False"
    /\ observed' = "row"
    /\ UNCHANGED <<unit, inputs, canceled, results, resolved, collectors, validation_fail_counts,
                   row_reservoir, count, fin, exception, emitted, progress, hist, vhist>>

\* A handler that logs the exception of the iterator and goes on to return True.
RowSourceRaises_true ==
    /\ pc = "collecting"
    /\ count < MaxRows
    /\ exception' = "RowSourceError"
    /\ pc' = "returned"
    /\ result' = "True"
    /\ UNCHANGED <<unit, inputs, canceled, results, resolved, collectors, validation_fail_counts,
                   row_reservoir, count, fin, emitted, progress, observed, hist, vhist>>

\* The iterator raises while the next feature is pulled (lines 168, 340-343).
RowSourceRaises ==
    /\ pc = "collecting"
    /\ count < MaxRows
    /\ exception' = "RowSourceError"
    /\ pc' = "returned"
    /\ result' = "False"
    /\ UNCHANGED <<unit, inputs, canceled, results, resolved, collectors, validation_fail_counts,
                   row_reservoir, count, fin, emitted, progress, observed, hist, vhist>>

\* The iterator is exhausted: line 261 and the start of the finalization loop.
Exhausted ==
    /\ pc = "collecting"
    /\ pc' = "finalizing"
    /\ fin' = 1
    /\ progress' = Append(progress, RInt(90))
    /\ UNCHANGED <<unit, inputs, canceled, results, resolved, collectors, validation_fail_counts,
                   row_reservoir, count, exception, result, emitted, observed, hist, vhist>>

\* ------------------------------------------------------------ finalization
\* Finalization of one field without the try block of lines 289-309.
FinalizeField_uncaught ==
    /\ pc = "finalizing"
    /\ fin <= Len(resolved)
    /\ ~canceled
    /\ IF "Error" \in DOMAIN FieldResult(collectors[resolved[fin]], resolved[fin], count)
       THEN /\ exception' = "exception"
            /\ result' = "False"
            /\ pc' = "returned"
            /\ UNCHANGED <<results, fin>>
       ELSE /\ results' = Put(results, resolved[fin],
                              FieldResult(collectors[resolved[fin]], resolved[fin], count))
            /\ fin' = fin + 1
            /\ UNCHANGED <<exception, result, pc>>
    /\ UNCHANGED <<unit, inputs, canceled, resolved, collectors, validation_fail_counts,
                   row_reservoir, count, emitted, progress, observed, hist, vhist>>

\* Lines 262-311 for one field, isCanceled() being false.
FinalizeField ==
    /\ pc = "finalizing"
    /\ fin <= Len(resolved)
    /\ ~canceled
    /\ results' = Put(results, resolved[fin], FieldResult(collectors[resolved[fin]], resolved[fin], count))
    /\ fin' = fin + 1
    /\ UNCHANGED <<unit, inputs, pc, canceled, resolved, collectors, validation_fail_counts,
                   row_reservoir, count, exception, result, emitted, progress, observed, hist, vhist>>

\* Line 263: isCanceled() is true at the head of the finalization loop.
CancelSeenAtField ==
    /\ pc = "finalizing"
    /\ fin <= Len(resolved)
    /\ canceled
    /\ pc' = "returned"
    /\ result' = "False"
    /\ observed' = "field"
    /\ UNCHANGED <<unit, inputs, canceled, results, resolved, collectors, validation_fail_counts,
                   row_reservoir, count, fin, exception, emitted, progress, hist, vhist>>

\* Lines 314-328: numpy.corrcoef either yields a matrix or raises.
CorrelationBlocks ==
    { [k \in {"fields", "matrix"} |->
          IF k = "fields" THEN numeric_fields_for_corr ELSE <<"corrcoef">>],
      [k \in {"Error"} |-> "exception"] }

\* Lines 331-336.
ValidationBlock(rules, fail_counts, cnt) ==
    [k \in {"rules", "fail_counts", "total_checked"} |->
        CASE k = "rules" -> rules
          [] k = "fail_counts" -> fail_counts
          [] k = "total_checked" -> cnt]

\* Lines 313-338: the correlation block, the validation block and return True.
Close ==
    /\ pc = "finalizing"
    /\ fin > Len(resolved)
    /\ \E corr \in CorrelationBlocks :
         LET r1 == IF row_reservoir # None /\ row_reservoir.reservoir # <<>>
                   THEN Put(results, "_global_correlation", corr)
                   ELSE results
         IN  results' = IF validation_rules_str # <<>>
                        THEN Put(r1, "_validation_results",
                                 ValidationBlock(validation_rules_str, validation_fail_counts, count))
                        ELSE r1
    /\ pc' = "returned"
    /\ result' = "True"
    /\ UNCHANGED <<unit, inputs, canceled, resolved, collectors, validation_fail_counts,
                   row_reservoir, count, fin, exception, emitted, progress, observed, hist, vhist>>

\* ---------------------------------------------------------------- finished
\* finished() that emits whatever run() returned.
finished_always ==
    /\ pc = "returned"
    /\ pc' = "finished"
    /\ emitted' = Append(emitted, results)
    /\ UNCHANGED <<unit, inputs, canceled, results, resolved, collectors, validation_fail_counts,
                   row_reservoir, count, fin, exception, result, progress, observed, hist, vhist>>

\* Lines 345-354: finished(result), called once when run() has returned.
finished ==
    /\ pc = "returned"
    /\ pc' = "finished"
    /\ emitted' = IF result = "True" THEN Append(emitted, results) ELSE emitted
    /\ UNCHANGED <<unit, inputs, canceled, results, resolved, collectors, validation_fail_counts,
                   row_reservoir, count, fin, exception, result, progress, observed, hist, vhist>>

\* QgsTask.cancel(), called from the main thread while the task is not finished.
cancel ==
    /\ pc \in {"setup", "collecting", "finalizing"}
    /\ ~canceled
    /\ canceled' = TRUE
    /\ UNCHANGED <<unit, inputs, pc, results, resolved, collectors, validation_fail_counts,
                   row_reservoir, count, fin, exception, result, emitted, progress,
                   observed, hist, vhist>>

Next ==
    \/ Setup
    \/ CollectRow
    \/ CancelSeenAtRow
    \/ RowSourceRaises
    \/ Exhausted
    \/ FinalizeField
    \/ CancelSeenAtField
    \/ Close
    \/ finished
    \/ cancel

Spec == Init /\ [][Next]_vars

\* ------------------------------------------- ReservoirSampler on its own
\* Items fed to the sampler.
Items == {"a", "b"}

\* ReservoirSampler(size) for every capacity up to MaxCapacity; no task runs.
InitSampler ==
    /\ \E size \in 1 .. MaxCapacity : sampler = ReservoirSampler_init(size)
    /\ n_updates = 0
    /\ last = NoUpdate
    /\ NoCall
    /\ NoStats
    /\ NoWidget
    /\ NoTask

\* sampler.update(item) with r the value random.randint returns.
SamplerUpdate ==
    /\ pc = "unit"
    /\ n_updates < MaxUpdates
    /\ \E item \in Items : \E r \in Draws(sampler) :
         /\ sampler' = ReservoirSampler_update(sampler, item, r)
         /\ last' = [before |-> sampler, item |-> item, r |-> r]
    /\ n_updates' = n_updates + 1
    /\ UNCHANGED <<taskVars, callVars, statsVars, widgetVars>>

NextSampler == SamplerUpdate

SpecSampler == InitSampler /\ [][NextSampler]_vars

\* --------------------------------------------- StreamingStats on its own
\* Values fed to the statistics.
StatValues == {-2, 1, 4}

\* StreamingStats(); no task runs.
InitStats ==
    /\ stats = StreamingStats_init
    /\ fed = <<>>
    /\ NoSampler
    /\ NoCall
    /\ NoWidget
    /\ NoTask

\* stats.update(val).
StatsUpdate ==
    /\ pc = "unit"
    /\ stats # None
    /\ Len(fed) < MaxUpdates
    /\ \E v \in StatValues :
         /\ stats' = StreamingStats_update(stats, RInt(v))
         /\ fed' = Append(fed, v)
    /\ UNCHANGED <<taskVars, samplerVars, callVars, widgetVars>>

NextStats == StatsUpdate

SpecStats == InitStats /\ [][NextStats]_vars

\* ---------------------------------------------- _analyze_text on its own
\* Values of the text column analysed on its own.
TextItems == {"", "abc", "xyz"}

\* The samples of at most MaxSample values.
TextSamples == UNION {[1 .. n -> TextItems] : n \in 1 .. MaxSample}

\* The collector of an exact text field that has received the sample.
TextCollector(sample) ==
    [NewCollector("t1") EXCEPT
        !.reservoir = [size |-> MaxSample, reservoir |-> sample, count_seen |-> Len(sample)]]

\* A text field whose values are all in its sample, and a configured limit.
InitText ==
    /\ \E sample \in TextSamples : \E limit \in 1 .. 2 :
         call = [fn |-> "_analyze_text", sample |-> sample, limit |-> limit]
    /\ ret = None
    /\ NoSampler
    /\ NoStats
    /\ NoWidget
    /\ NoTask

\* _analyze_text(col, count) with config_options['limit_unique'] = limit.
AnalyzeText ==
    /\ pc = "unit"
    /\ call # None
    /\ call.fn = "_analyze_text"
    /\ ret = None
    /\ ret' = [value |-> _analyze_text_limit(TextCollector(call.sample), Len(call.sample),
                                             call.limit).stats]
    /\ UNCHANGED <<call, taskVars, samplerVars, statsVars, widgetVars>>

NextText == AnalyzeText

SpecText == InitText /\ [][NextText]_vars

\* ------------------------------------------------------- the dock widget
\* FieldProfilerDockWidget with the tasks it hands to the task manager
\* (src/field_profiler_dockwidget.py).  A task is a record of its
\* QgsTask.status() (Queued after addTask, Running once the manager has
\* started it, Complete or Terminated after run() returned) and of the flag
\* cancel() sets.
InitWidget ==
    /\ current_task = 0
    /\ tasks = <<>>
    /\ displayed = 0
    /\ NoSampler
    /\ NoCall
    /\ NoStats
    /\ NoTask

\* Lines 405: the test that guards run_analysis.
isRunning(t) == t # 0 /\ tasks[t].status = "Running"

\* run_analysis (lines 403-465), the slot of the Analyze button.  valid
\* tells whether the layer, the field selection and the feature selection
\* pass the tests of lines 427-441.
run_analysis ==
    /\ pc = "unit"
    /\ \E valid \in BOOLEAN :
         IF isRunning(current_task)
         THEN /\ tasks' = [tasks EXCEPT ![current_task].canceled = TRUE]
              /\ UNCHANGED <<current_task, displayed>>
         ELSE /\ displayed' = 0
              /\ IF valid
                 THEN /\ Len(tasks) < MaxTasks
                      /\ tasks' = Append(tasks, [status |-> "Queued", canceled |-> FALSE])
                      /\ current_task' = Len(tasks) + 1
                 ELSE UNCHANGED <<tasks, current_task>>
    /\ UNCHANGED <<taskVars, samplerVars, callVars, statsVars>>

\* The task manager starts a task it was given at line 465.
TaskStarts ==
    /\ pc = "unit"
    /\ \E t \in 1 .. Len(tasks) :
         /\ tasks[t].status = "Queued"
         /\ tasks' = [tasks EXCEPT ![t].status = "Running"]
    /\ UNCHANGED <<current_task, displayed, taskVars, samplerVars, callVars, statsVars>>

\* on_analysis_finished (lines 467-515) for the results of task t.
on_analysis_finished(t) ==
    /\ displayed' = t
    /\ current_task' = 0

\* run() of a started task returns and finished(result) is called on the main
\* thread (task lines 345-354): the results are emitted on success only.
TaskReturns ==
    /\ pc = "unit"
    /\ \E t \in 1 .. Len(tasks) : \E ok \in BOOLEAN :
         /\ tasks[t].status = "Running"
         /\ tasks' = [tasks EXCEPT ![t].status = IF ok THEN "Complete" ELSE "Terminated"]
         /\ IF ok THEN on_analysis_finished(t) ELSE UNCHANGED <<current_task, displayed>>
    /\ UNCHANGED <<taskVars, samplerVars, callVars, statsVars>>

NextWidget == run_analysis \/ TaskStarts \/ TaskReturns

SpecWidget == InitWidget /\ [][NextWidget]_vars

\* ------------------------------------------- scaling of a sample count
\* The arguments of the scaling of lines 406, 447, 462 and 560: a count taken
\* on a sample of sample_size values out of count non-null values.
InitScale ==
    /\ \E total \in 1 .. MaxTotal : \E sample_size \in 1 .. total :
         \E sample_count \in 0 .. sample_size :
            call = [fn |-> "scale", sample_count |-> sample_count, count |-> total,
                    sample_size |-> sample_size]
    /\ ret = None
    /\ NoSampler
    /\ NoStats
    /\ NoWidget
    /\ NoTask

\* int(sample_count * count / sample_size) is evaluated.
Scale ==
    /\ pc = "unit"
    /\ call # None
    /\ call.fn = "scale"
    /\ ret = None
    /\ ret' = [value |-> ScaledCount(call.sample_count, call.count, call.sample_size)]
    /\ UNCHANGED <<call, taskVars, samplerVars, statsVars, widgetVars>>

NextScale == Scale

SpecScale == InitScale /\ [][NextScale]_vars

\* ================================================================== claims
Min(a, b) == IF a < b THEN a ELSE b

\* Requested names that do not resolve to a schema entry.
Unresolved == {n \in Range(field_names) : lookupField(n) = -1}

\* Resolved fields that have a finalized entry in the results.
Finalized == Range(resolved) \cap DOMAIN results

RunEnded == pc \in {"returned", "finished"}

\* C1: a requested name that does not resolve gets {'Error': 'Field not
\* found'} as its result, gets no collector, and does not fail the run: once
\* set-up is over the run is not in the Failed state because of the name, and
\* when it ends without cancellation or a row-source error it has returned
\* True with an entry for every resolved field.
C1_UnresolvedNameIsLocal ==
    (pc # "setup" /\ Unresolved # {}) =>
        /\ \A n \in Unresolved :
              /\ n \in DOMAIN results
              /\ results[n] = [e \in {"Error"} |-> "Field not found"]
              /\ n \notin DOMAIN collectors
        /\ exception # "KeyError"
        /\ (RunEnded /\ observed = "none" /\ exception = "None") =>
              (result = "True" /\ Range(resolved) \subseteq DOMAIN results)

\* C2: for every resolved field, after any number of processed rows,
\* null_count + reservoir.count_seen is the number of rows processed, and the
\* reported Null Count + Non-Null Count is the number of rows analyzed.
C2_NullAccounting ==
    /\ \A f \in DOMAIN collectors :
          collectors[f].null_count + collectors[f].reservoir.count_seen = count
    /\ \A f \in Finalized :
          results[f]["Null Count"] + results[f]["Non-Null Count"] = count

\* A completed run over rows of which some were null and some were not.
C2_Witness ==
    /\ pc = "finished"
    /\ result = "True"
    /\ \E f \in Finalized :
          /\ collectors[f].null_count >= 1
          /\ collectors[f].reservoir.count_seen >= 1
          /\ results[f]["Null Count"] + results[f]["Non-Null Count"] = count

\* C3: is_exact is true exactly while at most MAX_EXACT_VALUES non-null values
\* have been observed for the field.
C3_ExactnessSwitch ==
    \A f \in DOMAIN collectors :
        collectors[f].is_exact = (collectors[f].reservoir.count_seen <= MAX_EXACT_VALUES)

\* The row that delivers non-null value number MAX_EXACT_VALUES + 1.
C3_Witness ==
    \E f \in DOMAIN collectors :
        /\ collectors[f].reservoir.count_seen = MAX_EXACT_VALUES + 1
        /\ ~collectors[f].is_exact

\* C4: from the step in which the per-row check sees the cancellation, no row
\* is processed, no collector changes, no field is finalized, run() has
\* returned False and analysisFinished is not emitted.
C4_CancelStopsCollection ==
    [][observed' = "row" =>
          /\ count' = count
          /\ collectors' = collectors
          /\ validation_fail_counts' = validation_fail_counts
          /\ row_reservoir' = row_reservoir
          /\ hist' = hist
          /\ results' = results
          /\ Range(resolved') \cap DOMAIN results' = {}
          /\ result' = "False"
          /\ emitted' = <<>>]_vars

\* A run cancelled after some rows, taken through finished().
C4_Witness == observed = "row" /\ pc = "finished" /\ count >= 1 /\ emitted = <<>>

\* C5: when a run has ended, either every resolved field has a finalized entry
\* or none has.
C5_FinalizationAllOrNothing ==
    RunEnded => (Finalized = Range(resolved) \/ Finalized = {})

\* C6: analysisFinished is emitted at most once, with the complete results,
\* exactly when run() returned True and finished() has run.
C6_EmittedOnceOnSuccess ==
    /\ Len(emitted) <= 1
    /\ (pc = "finished" /\ result = "True") => Len(emitted) = 1
    /\ (pc # "finished" \/ result # "True") => emitted = <<>>
    /\ emitted # <<>> => (emitted[1] = results /\ Range(resolved) \subseteq DOMAIN emitted[1])

\* A completed run whose result was emitted.
C6_Witness == pc = "finished" /\ result = "True" /\ Len(emitted) = 1 /\ Finalized # {}

\* The retained items of a sampler are the first min(count_seen, capacity).
RetainsMin(rs) ==
    rs # None => (Len(rs.reservoir) = Min(rs.count_seen, rs.size) /\ Len(rs.reservoir) <= rs.size)

\* C7: count_seen is the number of update() calls, growing by one per call, and
\* the number of retained items is min(count_seen, capacity).
C7_SamplerBounded ==
    /\ RetainsMin(sampler)
    /\ RetainsMin(row_reservoir)
    /\ \A f \in DOMAIN collectors :
          /\ RetainsMin(collectors[f].reservoir)
          /\ RetainsMin(collectors[f].original_variants_reservoir)
    /\ sampler # None =>
          /\ sampler.count_seen = n_updates
          /\ n_updates > 0 =>
                /\ sampler.count_seen = last.before.count_seen + 1
                /\ sampler.size = last.before.size
    /\ \A f \in DOMAIN collectors : collectors[f].reservoir.count_seen = hist[f].non_null

\* A sampler that has seen more items than it retains.
C7_Witness ==
    /\ sampler # None
    /\ sampler.count_seen > sampler.size + 1
    /\ Len(sampler.reservoir) = sampler.size

\* C8: update() is Algorithm R.  Item k is appended while fewer than N items
\* are retained; otherwise r is one of the k values 0..k-1, N of which are
\* below N, slot r is overwritten exactly when r < N, each slot is the target
\* of exactly one value of r, and for r >= N the items stay as they are.
C8_AlgorithmR ==
    [][n_updates' = n_updates + 1 =>
          LET k == sampler'.count_seen
              N == sampler.size
              r == last'.r
              item == last'.item
          IN  /\ k = sampler.count_seen + 1
              /\ IF Len(sampler.reservoir) < N
                 THEN sampler'.reservoir = Append(sampler.reservoir, item)
                 ELSE /\ r \in 0 .. k - 1
                      /\ Draws(sampler) = 0 .. k - 1
                      /\ Cardinality({d \in Draws(sampler) : d < N}) = N
                      /\ \A slot \in 1 .. N :
                            Cardinality({d \in Draws(sampler) :
                                ReservoirSampler_update(sampler, "fresh", d).reservoir[slot]
                                    = "fresh"}) = 1
                      /\ IF r < N
                         THEN sampler'.reservoir = [sampler.reservoir EXCEPT ![r + 1] = item]
                         ELSE sampler'.reservoir = sampler.reservoir]_vars

\* An update on a full sampler that replaced a retained item.
C8_Witness ==
    /\ n_updates > 0
    /\ Len(last.before.reservoir) = last.before.size
    /\ last.r < last.before.size
    /\ sampler.reservoir # last.before.reservoir

\* C9: neither identifier list of a field ever holds more than the cap.
C9_FidListsCapped ==
    \A f \in DOMAIN collectors :
        /\ Len(collectors[f].conversion_error_fids) <= MAX_ERROR_FIDS
        /\ Len(collectors[f].non_printable_fids) <= MAX_ERROR_FIDS

\* More offending rows than the cap have been delivered for a field.
C9_Witness ==
    \E f \in DOMAIN collectors :
        /\ hist[f].failed > MAX_ERROR_FIDS
        /\ Len(collectors[f].conversion_error_fids) = MAX_ERROR_FIDS

\* C10: the conversion_errors counter of a numeric field is the number of
\* non-null values that failed conversion, and so is the reported value.
C10_ConversionErrorsExact ==
    /\ \A f \in DOMAIN collectors :
          isNumeric(f) => collectors[f].conversion_errors = hist[f].failed
    /\ \A f \in Finalized :
          "Conversion Errors" \in DOMAIN results[f] =>
              results[f]["Conversion Errors"] = hist[f].failed

\* More failed conversions than the identifier list holds, on a field that is
\* no longer exact, with the counter reported by a completed run.
C10_Witness ==
    \E f \in Finalized :
        /\ pc = "finished"
        /\ hist[f].failed > MAX_ERROR_FIDS
        /\ Len(collectors[f].conversion_error_fids) = MAX_ERROR_FIDS
        /\ ~collectors[f].is_exact
        /\ "Conversion Errors" \in DOMAIN results[f]
        /\ results[f]["Conversion Errors"] = hist[f].failed

\* A numeric field whose sample still holds a value that float() rejects.
SampleHoldsBadValue(f) ==
    /\ isNumeric(f)
    /\ \E i \in 1 .. Len(collectors[f].reservoir.reservoir) :
          ~FloatOk(collectors[f].reservoir.reservoir[i])

\* The run ended without a cancellation, a row-source error or a failed name.
EndedOnItsOwn ==
    RunEnded /\ observed = "none" /\ exception \notin {"RowSourceError", "KeyError"}

\* C11: a numeric field with failed conversions is finalized with its numeric
\* statistics and 'Conversion Errors' equal to the number of failed
\* conversions, not with a field-level 'Error'.
C11_ConversionErrorIsLocal ==
    \A f \in Finalized :
        (isNumeric(f) /\ hist[f].failed >= 1) =>
            /\ "Error" \notin DOMAIN results[f]
            /\ {"Conversion Errors", "Min", "Max", "Mean"} \subseteq DOMAIN results[f]
            /\ results[f]["Conversion Errors"] = hist[f].failed

\* C12: the number of rows of a text field with a non-printable character that
\* the run keeps is the number of such rows delivered, beyond the cap of the
\* identifier list too.
C12_NonPrintableCountExact ==
    \A f \in DOMAIN collectors :
        FieldType(f) = "String" => NonPrintableRecorded(collectors[f]) = hist[f].non_printable

\* C13: an exception in the finalization of one field is reported as 'Error' in
\* the entry of that field; a run that is not cancelled still finalizes every
\* resolved field and returns True.
C13_FinalizationErrorIsLocal ==
    /\ \A f \in Finalized : SampleHoldsBadValue(f) => "Error" \in DOMAIN results[f]
    /\ EndedOnItsOwn =>
          /\ result = "True"
          /\ exception = "None"
          /\ Finalized = Range(resolved)

\* A completed run with one field that failed in finalization and one that did not.
C13_Witness ==
    /\ pc = "finished"
    /\ result = "True"
    /\ \E f \in Finalized : \E g \in Finalized :
          /\ SampleHoldsBadValue(f)
          /\ "Error" \in DOMAIN results[f]
          /\ "Error" \notin DOMAIN results[g]
          /\ "Mean" \in DOMAIN results[g]

\* C14: the entry of a field whose finalization raised holds 'Error' and no
\* other key.
C14_ErrorIsSoleEntry ==
    \A f \in Finalized : "Error" \in DOMAIN results[f] => DOMAIN results[f] = {"Error"}

\* C15: once an exception has escaped to the handler of run(), the exception is
\* stored, run() has returned False and nothing is emitted.
C15_RunLevelFailure ==
    exception # "None" => (RunEnded /\ result = "False" /\ emitted = <<>>)

\* The iterator raised after some rows and finished() has run.
C15_Witness == exception = "RowSourceError" /\ pc = "finished" /\ count >= 1 /\ emitted = <<>>

\* C16: every rule is evaluated once per processed row, fail_counts[i] is the
\* number of rows on which rule i gave a false value or raised, and
\* total_checked is the number of rows processed.
C16_ValidationCounts ==
    /\ pc # "setup" =>
          /\ Len(validation_fail_counts) = Len(vhist.rules)
          /\ \A i \in 1 .. Len(validation_fail_counts) :
                /\ validation_fail_counts[i] = vhist.rules[i].fails
                /\ vhist.rules[i].evals = count
                /\ 0 <= validation_fail_counts[i]
                /\ validation_fail_counts[i] <= count
    /\ "_validation_results" \in DOMAIN results =>
          /\ results["_validation_results"]["total_checked"] = count
          /\ \A i \in 1 .. Len(vhist.rules) :
                results["_validation_results"]["fail_counts"][i] = vhist.rules[i].fails

\* A completed run in which a rule passed on a row, gave false on another and
\* raised on a third.
C16_Witness ==
    /\ pc = "finished"
    /\ "_validation_results" \in DOMAIN results
    /\ \E i \in 1 .. Len(vhist.rules) :
          /\ vhist.rules[i].errors >= 1
          /\ vhist.rules[i].fails > vhist.rules[i].errors
          /\ vhist.rules[i].fails < count

\* C17: a completed run with rules has a validation block with every
\* configured rule, in order, and a fail count for each; a rule with a parser
\* error is kept.
C17_MalformedRuleKept ==
    /\ pc # "setup" => Len(validation_fail_counts) = Len(validation_rules_str)
    /\ (RunEnded /\ result = "True" /\ validation_rules_str # <<>>) =>
          /\ "_validation_results" \in DOMAIN results
          /\ results["_validation_results"]["rules"] = validation_rules_str
          /\ Len(results["_validation_results"]["fail_counts"]) = Len(validation_rules_str)

\* A completed run over some rows with a rule that has a parser error.
C17_Witness ==
    /\ pc = "finished"
    /\ result = "True"
    /\ count >= 1
    /\ \E i \in 1 .. Len(validation_rules_str) : hasParserError(validation_rules_str[i])
    /\ "_validation_results" \in DOMAIN results

\* The numbers float() can produce from the column of a field.
NumbersOf(fname) == {float(v) : v \in {w \in ValuesOf(fname) : FloatOk(w)}}

C19_AllNullStatus ==
    \A f \in Finalized :
        hist[f].non_null = 0 =>
            /\ "Status" \in DOMAIN results[f]
            /\ results[f]["Status"] = "All Null or Empty"
            /\ DOMAIN results[f] \subseteq
                  {"Null Count", "Non-Null Count", "Status", "Data Type Mismatch Hint"}

\* A completed run over some rows, all null for a field.
C19_Witness ==
    /\ pc = "finished"
    /\ result = "True"
    /\ count >= 2
    /\ \E f \in Finalized : hist[f].non_null = 0 /\ results[f]["Status"] = "All Null or Empty"

\* The sample-derived counts of a finalized entry: the empty-string count, the
\* outlier count and the counts of the most frequent values.
SampleCounts(entry) ==
    (IF "Empty Strings" \in DOMAIN entry THEN {entry["Empty Strings"]} ELSE {})
        \cup (IF "Outliers (IQR)" \in DOMAIN entry THEN {entry["Outliers (IQR)"]} ELSE {})
        \cup (IF "Unique Values (Top)" \in DOMAIN entry
              THEN {entry["Unique Values (Top)"][i].count :
                      i \in 1 .. Len(entry["Unique Values (Top)"])}
              ELSE {})

\* C20: every sample-derived count of a field is labelled as an estimate
\* exactly when the field is no longer exact; the empty-string count is then
\* the sample count scaled by non-null count / sample size, and is the sample
\* count itself while the field is exact.
C20_EstimatesLabelled ==
    \A f \in Finalized :
        /\ \A c \in SampleCounts(results[f]) : c.est = ~collectors[f].is_exact
        /\ "Empty Strings" \in DOMAIN results[f] =>
              LET sample == collectors[f].reservoir.reservoir
                  raw == CountOf(sample, "")
                  shown == results[f]["Empty Strings"].value
              IN  IF collectors[f].is_exact
                  THEN shown = raw
                  ELSE /\ shown * Len(sample) <= raw * collectors[f].reservoir.count_seen
                       /\ raw * collectors[f].reservoir.count_seen < (shown + 1) * Len(sample)

\* C21: a scaled estimate is sample_count * count / sample_size rounded to the
\* nearest integer: it is no farther than one half from the quotient (either
\* neighbour is accepted when the quotient lies half-way).
C21_EstimateIsRounded ==
    (ret # None /\ call.fn = "scale") =>
        2 * Abs(ret.value * call.sample_size - call.sample_count * call.count)
            <= call.sample_size

\* C22: for a numeric field, StreamingStats.count is the number of values
\* that converted and min_val / max_val are the least and the greatest of
\* them, whatever the reservoir has evicted; the finalized Min and Max are
\* those values.
C22_StreamingStatsExact ==
    /\ \A f \in DOMAIN collectors :
          isNumeric(f) =>
              /\ collectors[f].streaming_stats.count = hist[f].non_null - hist[f].failed
              /\ collectors[f].streaming_stats.min_val = hist[f].lo
              /\ collectors[f].streaming_stats.max_val = hist[f].hi
    /\ \A f \in Finalized :
          "Min" \in DOMAIN results[f] =>
              /\ results[f]["Min"] = hist[f].lo
              /\ results[f]["Max"] = hist[f].hi

\* A numeric field past MAX_EXACT_VALUES is finalized with a minimum that its
\* sample no longer holds.
C22_Witness ==
    \E f \in Finalized :
        /\ isNumeric(f)
        /\ ~collectors[f].is_exact
        /\ "Min" \in DOMAIN results[f]
        /\ collectors[f].streaming_stats.count > MAX_EXACT_VALUES
        /\ \A i \in 1 .. Len(collectors[f].reservoir.reservoir) :
              RInt(float(collectors[f].reservoir.reservoir[i])) # results[f]["Min"]

\* The sum of a sequence of integers.
RECURSIVE SeqSum(_)
SeqSum(seq) == IF seq = <<>> THEN 0 ELSE Head(seq) + SeqSum(Tail(seq))

\* The sum of the squared deviations of a sequence of integers from m.
RECURSIVE SumSqDev(_, _)
SumSqDev(seq, m) ==
    IF seq = <<>> THEN RInt(0)
    ELSE RAdd(RMul(RSub(RInt(Head(seq)), m), RSub(RInt(Head(seq)), m)),
              SumSqDev(Tail(seq), m))

\* C23: after every update, mean is the arithmetic mean and M2 the sum of
\* squared deviations from it of the values fed so far; variance() is
\* M2 / count, and variance() and std_dev() are not-a-number exactly when
\* fewer than 2 values have been fed.
C23_WelfordInvariant ==
    stats # None =>
        LET n == Len(fed)
            m == IF n = 0 THEN RInt(0) ELSE Rat(SeqSum(fed), n)
        IN  /\ stats.count = n
            /\ stats.mean = m
            /\ stats.M2 = SumSqDev(fed, m)
            /\ variance(stats).nan = (n < 2)
            /\ std_dev(stats).nan = (n < 2)
            /\ n >= 2 =>
                  /\ variance(stats).value = RDivInt(SumSqDev(fed, m), n)
                  /\ std_dev(stats).value = variance(stats).value

\* Values of both signs have been fed, the mean is not an integer and the
\* variance is positive.
C23_Witness ==
    /\ stats # None
    /\ Len(fed) >= 3
    /\ \E i \in 1 .. Len(fed) : fed[i] < 0
    /\ \E i \in 1 .. Len(fed) : fed[i] > 0
    /\ stats.mean[2] > 1
    /\ ~variance(stats).nan
    /\ RLess(RInt(0), variance(stats).value)

\* C24: a row whose value for a field is null changes, in the collector of
\* that field, the null counter only (by one): both reservoirs, the running
\* statistics, the conversion-error counter, both identifier lists and
\* is_exact stay as they were.
C24_NullTouchesOnlyCounter ==
    [][\A f \in DOMAIN collectors :
          (f \in DOMAIN collectors' /\ hist'[f].nulls = hist[f].nulls + 1) =>
              collectors'[f] = [collectors[f] EXCEPT !.null_count = @ + 1]]_vars

\* A temporal field has received values in both reservoirs and nulls as well.
C24_Witness ==
    /\ "d1" \in DOMAIN collectors
    /\ hist["d1"].nulls >= 2
    /\ collectors["d1"].null_count = hist["d1"].nulls
    /\ collectors["d1"].reservoir.count_seen >= 1
    /\ collectors["d1"].original_variants_reservoir.count_seen >= 1

\* The percentage of total that cnt rows make, 0 when total is not positive.
Percent(cnt, total) == IF total > 0 THEN Rat(100 * cnt, total) ELSE RInt(0)

\* The progress values reported while rows are collected: one for every
\* multiple of PROGRESS_EVERY among the rows processed, with its percentage.
CadenceKept ==
    pc = "collecting" =>
        /\ Len(progress) = count \div PROGRESS_EVERY
        /\ \A k \in 1 .. Len(progress) :
              progress[k] = Percent(k * PROGRESS_EVERY, total_count)

\* Every progress value reported lies between 0 and 100.
InRange ==
    \A i \in 1 .. Len(progress) :
        ~RLess(progress[i], RInt(0)) /\ ~RLess(RInt(100), progress[i])

\* C25: during collection progress is reported exactly at the positive
\* multiples of the cadence, with value 100 * rows / total_count (0 when
\* total_count is not positive), and every reported value lies in 0 .. 100.
C25_ProgressCadenceAndRange == CadenceKept /\ InRange

\* C29: the progress values one run reports never decrease, the value reported
\* at the start of finalization included.
C29_ProgressMonotone ==
    \A i \in 1 .. Len(progress) - 1 : ~RLess(progress[i + 1], progress[i])

\* The position at which a value first occurs in a sample.
FirstIndex(sample, v) ==
    CHOOSE i \in 1 .. Len(sample) : sample[i] = v /\ \A j \in 1 .. i - 1 : sample[j] # v

\* top lists the limit most frequent distinct values of sample with their
\* counts, most frequent first, values of equal count in first-seen order.
IsTopList(top, sample, limit) ==
    /\ Len(top) = Min(limit, Cardinality(Range(sample)))
    /\ \A i \in 1 .. Len(top) :
          /\ top[i].value \in Range(sample)
          /\ top[i].count.value = CountOf(sample, top[i].value)
    /\ \A i \in 1 .. Len(top) : \A j \in 1 .. Len(top) :
          i < j =>
              \/ top[i].count.value > top[j].count.value
              \/ /\ top[i].count.value = top[j].count.value
                 /\ FirstIndex(sample, top[i].value) < FirstIndex(sample, top[j].value)
    /\ \A v \in Range(sample) :
          (\A i \in 1 .. Len(top) : top[i].value # v) =>
              \A i \in 1 .. Len(top) :
                  \/ top[i].count.value > CountOf(sample, v)
                  \/ /\ top[i].count.value = CountOf(sample, v)
                     /\ FirstIndex(sample, top[i].value) < FirstIndex(sample, v)

\* The top list of a result as pairs of value and count.
Pairs(top) == [i \in 1 .. Len(top) |-> <<top[i].value, top[i].count.value>>]

\* The top list follows the rule of descending frequency with ties in
\* first-seen order, and the first value kept apart is its first entry.
TopListRule ==
    (ret # None /\ call.fn = "_analyze_text") =>
        /\ IsTopList(ret.value["Unique Values (Top)"], call.sample, call.limit)
        /\ ret.value["Unique Values (Top)_actual_first_value"]
              = ret.value["Unique Values (Top)"][1].value

\* For the sample "", "", abc, abc, xyz and limit 2, Empty Strings is 2 and
\* the top list is one of the two lists the scenario names.
TopListScenario ==
    (ret # None /\ call.fn = "_analyze_text"
         /\ call.sample = <<"", "", "abc", "abc", "xyz">> /\ call.limit = 2) =>
        /\ ret.value["Empty Strings"].value = 2
        /\ Pairs(ret.value["Unique Values (Top)"])
              \in { << <<"abc", 2>>, <<"xyz", 1>> >>, << <<"abc", 2>>, <<"", 2>> >> }

\* C26: 'Unique Values (Top)' of a text field lists the limit_unique most
\* frequent distinct sampled values in descending frequency, ties in
\* first-seen order, the first value kept apart being its first entry; for
\* the sample "", "", abc, abc, xyz and limit 2 the list is (abc, 2), (xyz, 1)
\* or (abc, 2), ("", 2) and Empty Strings is 2.
C26_TopValues == TopListRule /\ TopListScenario

\* C27: for a numeric field, the values the reservoir has seen are the values
\* given to StreamingStats plus the conversion errors, and the Non-Null Count
\* of the result counts the values that failed conversion too.
C27_NumericAccounting ==
    /\ \A f \in DOMAIN collectors :
          isNumeric(f) =>
              collectors[f].reservoir.count_seen
                  = collectors[f].streaming_stats.count + collectors[f].conversion_errors
    /\ \A f \in Finalized :
          isNumeric(f) =>
              results[f]["Non-Null Count"]
                  = collectors[f].streaming_stats.count + hist[f].failed

\* A finalized numeric field with values that converted and values that did not.
C27_Witness ==
    \E f \in Finalized :
        /\ isNumeric(f)
        /\ collectors[f].conversion_errors >= 2
        /\ collectors[f].streaming_stats.count >= 2
        /\ results[f]["Non-Null Count"] = collectors[f].reservoir.count_seen

\* C28: for a temporal field the secondary reservoir has seen the values the
\* primary reservoir has seen, and both retain the same number of items.
C28_SecondaryReservoirInStep ==
    \A f \in DOMAIN collectors :
        isTemporal(f) =>
            /\ collectors[f].original_variants_reservoir.count_seen
                  = collectors[f].reservoir.count_seen
            /\ collectors[f].original_variants_reservoir.count_seen = hist[f].non_null
            /\ Len(collectors[f].original_variants_reservoir.reservoir)
                  = Len(collectors[f].reservoir.reservoir)

\* A temporal field past MAX_EXACT_VALUES, with nulls among its rows, whose two
\* reservoirs have drawn differently.
C28_Witness ==
    \E f \in DOMAIN collectors :
        /\ isTemporal(f)
        /\ ~collectors[f].is_exact
        /\ hist[f].nulls >= 1
        /\ collectors[f].reservoir.count_seen > MAX_EXACT_VALUES + 1
        /\ collectors[f].original_variants_reservoir.reservoir # collectors[f].reservoir.reservoir

\* The tasks of the widget that are queued or running.
Unfinished == {t \in 1 .. Len(tasks) : tasks[t].status \in {"Queued", "Running"}}

====
